---- MODULE Spec2Model ----
(***************************************************************************)
(* A model of the EMIT processing tools: the GLT orthorectifier            *)
(* (utils/emit_tools.py: apply_glt, ortho_xr), the quality mask builder    *)
(* (quality_mask), the loader (emit_xarray), the ENVI writer (write_envi), *)
(* the spatial crop (raw_spatial_crop, coord_vects), the spectral mixer    *)
(* (utils/synthmix.py: mix_fast), the per-tile prediction and raster       *)
(* export of unmix_image.py, and the order of the statements of the two    *)
(* scripts (extract_spectra.py, unmix_image.py).                           *)
(*                                                                         *)
(* Arrays are records [shape |-> <<n0, n1[, n2]>>, data |-> f] where f is  *)
(* a function over 0-based index tuples, as numpy indexes them.  Numbers   *)
(* are integers; the float value NaN is the distinguished value NaN below  *)
(* and never takes part in arithmetic.  The float32 narrowing of apply_glt *)
(* is exact on the integers used here.                                     *)
(***************************************************************************)
EXTENDS Integers, Sequences, FiniteSets, TLC

VARIABLES
    ds,          \* ortho_xr: the sensor-space dataset handed to ortho_xr
    ortho_out,   \* ortho_xr: the dataset it returned (NotRun before the call)
    mask_in,     \* quality_mask: the mask file's array and the selected bands
    mask_out,    \* quality_mask: what the call produced
    load_in,     \* emit_xarray: the file and the arguments of the call
    load_out,    \* emit_xarray: what the call produced
    pred_in,     \* unmix_image: the tile, the model's raw output, the mask
    pred_out,    \* unmix_image: pred_chunk's result and the masked result
    export_out,  \* unmix_image: the orthorectified, encoded raster it writes
    mix_in,      \* mix_fast: the records (features, Category) and nsamp
    mix_out,     \* mix_fast: the synthetic records built so far
    crop_in,     \* raw_spatial_crop: the geographic cells the polygon touches
    crop_out,    \* raw_spatial_crop: the clipped GLT and the cropped dataset
    envi_out,    \* write_envi: the grid it was given, its outcome, the files created
    run          \* the scripts: the stages completed, the frames held, the files written

vars == <<ds, ortho_out, mask_in, mask_out, load_in, load_out, pred_in, pred_out, export_out, mix_in, mix_out, crop_in, crop_out, envi_out, run>>

\* ------------------------------------------------------------------ bounds
\* sensor grid: downtrack x crosstrack
DimDown == 2
DimCross == 2
\* bands of a 3-D data variable
NumBands == 2
\* most data variables a dataset holds
MaxVars == 2

\* ------------------------------------------------------- program constants
\* fill_value=-9999 (apply_glt, ortho_xr) and the loader's fill sentinel
FillValue == 0 - 9999
\* GLT_NODATA_VALUE=0
GLT_NODATA_VALUE == 0
\* np.nan: a value outside every range the model computes with
NaN == 0 - 1000000

\* The value of a component that has not run (or is not part of the run).
NotRun == [status |-> "not_run"]

\* ------------------------------------------------------------------ arrays
Idx2(n0, n1) == (0 .. n0 - 1) \X (0 .. n1 - 1)
Idx3(n0, n1, n2) == (0 .. n0 - 1) \X (0 .. n1 - 1) \X (0 .. n2 - 1)

ndim(a) == Len(a.shape)

\* numpy's a[:, :, np.newaxis] on a 2-D array
newaxis(a) ==
    [shape |-> <<a.shape[1], a.shape[2], 1>>,
     data |-> [i \in Idx3(a.shape[1], a.shape[2], 1) |-> a.data[<<i[1], i[2]>>]]]

\* numpy's squeeze() of a (rows, cols, 1) array
squeeze(a) ==
    IF ndim(a) = 3 /\ a.shape[3] = 1
    THEN [shape |-> <<a.shape[1], a.shape[2]>>,
          data |-> [i \in Idx2(a.shape[1], a.shape[2]) |-> a.data[<<i[1], i[2], 0>>]]]
    ELSE a

\* numpy's index normalisation: a negative index counts from the end
PyIndex(i, n) == IF i < 0 THEN i + n ELSE i

\* ------------------------------------------------------------------ apply_glt
\* valid_glt = np.all(glt_array != GLT_NODATA_VALUE, axis=-1)
valid_glt(glt_array, nodata) ==
    [rc \in DOMAIN glt_array.data |->
        glt_array.data[rc][1] # nodata /\ glt_array.data[rc][2] # nodata]

\* glt_array[valid_glt] -= 1 : the caller's array, rewritten in place
glt_decrement(glt_array, valid) ==
    [glt_array EXCEPT !.data =
        [rc \in DOMAIN glt_array.data |->
            IF valid[rc]
            THEN <<glt_array.data[rc][1] - 1, glt_array.data[rc][2] - 1>>
            ELSE glt_array.data[rc]]]

\* out_ds[valid_glt, :] = ds_array[glt_array[valid_glt, 1], glt_array[valid_glt, 0], :]
\* over an output np.full(..., fill_value)
glt_gather(arr3, glt_array, valid, fill_value) ==
    [shape |-> <<glt_array.shape[1], glt_array.shape[2], arr3.shape[3]>>,
     data |-> [i \in Idx3(glt_array.shape[1], glt_array.shape[2], arr3.shape[3]) |->
        LET rc == <<i[1], i[2]>> IN
        IF valid[rc]
        THEN arr3.data[<<PyIndex(glt_array.data[rc][2], arr3.shape[1]),
                         PyIndex(glt_array.data[rc][1], arr3.shape[2]),
                         i[3]>>]
        ELSE fill_value]]

\* apply_glt(ds_array, glt_array, fill_value, GLT_NODATA_VALUE): the returned
\* out_ds, and glt_array as the call leaves it for the caller
apply_glt(ds_array, glt_array, fill_value, nodata) ==
    LET arr3 == IF ndim(ds_array) = 2 THEN newaxis(ds_array) ELSE ds_array
        valid == valid_glt(glt_array, nodata)
        glt0 == glt_decrement(glt_array, valid)
    IN [out_ds |-> glt_gather(arr3, glt0, valid, fill_value),
        glt_array |-> glt0]

\* mask_fill without the rewrite: the fill value stays in the array
mask_fill_skipped(a, fill_value) == a

\* out_ds[out_ds==fill_value] = np.nan
mask_fill(a, fill_value) ==
    [a EXCEPT !.data = [i \in DOMAIN a.data |->
        IF a.data[i] = fill_value THEN NaN ELSE a.data[i]]]

\* ------------------------------------------------------------------ ortho_xr
\* np.nan_to_num(np.stack([glt_x, glt_y], axis=-1), nan=GLT_NODATA_VALUE).astype(int)
build_glt_ds(d, nodata) ==
    [shape |-> d.glt_x.shape,
     data |-> [rc \in DOMAIN d.glt_x.data |->
        << IF d.glt_x.data[rc] = NaN THEN nodata ELSE d.glt_x.data[rc],
           IF d.glt_y.data[rc] = NaN THEN nodata ELSE d.glt_y.data[rc] >>]]

\* var_list = list(ds.data_vars) without 'flat_field_update'
ortho_var_list(d) == SelectSeq(d.var_names, LAMBDA v : v # "flat_field_update")

\* the loop "for var in var_list": the orthorectified variables so far and
\* glt_ds as the calls have left it
RECURSIVE ortho_loop(_, _, _, _, _, _)
ortho_loop(d, var_list, k, glt_ds, done, nodata) ==
    IF k > Len(var_list)
    THEN [data_vars |-> done, glt_ds |-> glt_ds]
    ELSE LET var == var_list[k]
             raw_ds == d.data_vars[var]
             r == apply_glt(raw_ds, glt_ds, FillValue, nodata)
             masked == mask_fill(r.out_ds, FillValue)
             out_ds == IF ndim(raw_ds) = 2 THEN squeeze(masked) ELSE masked
         IN ortho_loop(d, var_list, k + 1, r.glt_array,
                       done @@ (var :> out_ds), nodata)

\* ortho_xr(ds, GLT_NODATA_VALUE=0, fill_value=-9999)
ortho_xr(d) ==
    LET glt_ds == build_glt_ds(d, GLT_NODATA_VALUE)
        var_list == ortho_var_list(d)
        loop == ortho_loop(d, var_list, 1, glt_ds, <<>>, GLT_NODATA_VALUE)
        elev_r == apply_glt(d.elev, loop.glt_ds, FillValue, GLT_NODATA_VALUE)
        elev_ds == mask_fill(elev_r.out_ds, FillValue)
    IN [status |-> "ok",
        var_names |-> var_list,
        data_vars |-> loop.data_vars,
        coord_names |-> {"latitude", "longitude", "elev"},
        elev |-> squeeze(elev_ds)]

\* ------------------------------------------------------------------ inputs
\* The value a sensor pixel holds: distinct for every variable, pixel and band
\* (k is the variable's number, 0 for elev).
SrcVal(k, d, c, b) == 1000 * k + 100 * d + 10 * c + b + 1

SrcArray3(k) ==
    [shape |-> <<DimDown, DimCross, NumBands>>,
     data |-> [i \in Idx3(DimDown, DimCross, NumBands) |-> SrcVal(k, i[1], i[2], i[3])]]

SrcArray2(k) ==
    [shape |-> <<DimDown, DimCross>>,
     data |-> [i \in Idx2(DimDown, DimCross) |-> SrcVal(k, i[1], i[2], 0)]]

\* the geographic grid of the GLT
GltShape == <<2, 2>>
GltCells == Idx2(GltShape[1], GltShape[2])

\* most GLT cells that do not hold the identity mapping
MaxEdits == 1

\* the names a granule's data variables take, in file order; the variables of
\* the mineral product are 2-D, the others carry a band axis
VarNameLists ==
    { <<"reflectance">>, <<"radiance", "flat_field_update">>,
      <<"mask", "band_mask">>, <<"group_1_band_depth", "group_1_mineral_id">> }
    \cup {s \in {<<"radiance", "obs", "flat_field_update", "mask">>} : MaxVars >= 3}

Is2D(v) == v \in {"group_1_band_depth", "group_1_mineral_id"}

VarNumber(names, v) == CHOOSE k \in 1 .. Len(names) : names[k] = v

\* the identity-mapped GLT entry of a cell: glt_x = c + 1, glt_y = r + 1
IdentityEntry(rc) == <<rc[2] + 1, rc[1] + 1>>

\* A dataset as emit_xarray hands it over: GLT entries are 1-based indices
\* into the sensor grid or no-data; no-data is 0, or NaN when the reader has
\* decoded the file's fill value.  g maps a cell to <<glt_x, glt_y>>.
Dataset(names, g, nodata_as) ==
    [var_names |-> names,
     data_vars |-> [v \in {names[k] : k \in 1 .. Len(names)} |->
                       IF Is2D(v) THEN SrcArray2(VarNumber(names, v))
                       ELSE SrcArray3(VarNumber(names, v))],
     elev |-> SrcArray2(0),
     glt_x |-> [shape |-> GltShape,
                data |-> [rc \in GltCells |-> IF g[rc][1] = 0 THEN nodata_as ELSE g[rc][1]]],
     glt_y |-> [shape |-> GltShape,
                data |-> [rc \in GltCells |-> IF g[rc][2] = 0 THEN nodata_as ELSE g[rc][2]]]]

\* every GLT entry: a sensor pixel (1-based) or no-data on either axis
GltEntries == (0 .. DimCross) \X (0 .. DimDown)

\* the GLTs the model draws: the identity mapping with at most MaxEdits cells
\* remapped to any entry
GltChoices ==
    UNION { { [rc \in GltCells |-> IF rc \in E THEN e[rc] ELSE IdentityEntry(rc)] :
                e \in [E -> GltEntries] } :
            E \in {X \in SUBSET GltCells : Cardinality(X) <= MaxEdits} }

InitOrtho ==
    /\ \E names \in VarNameLists, nodata_as \in {0, NaN}, g \in GltChoices :
           ds = Dataset(names, g, nodata_as)
    /\ ortho_out = NotRun
    /\ mask_in = NotRun /\ mask_out = NotRun
    /\ load_in = NotRun /\ load_out = NotRun
    /\ pred_in = NotRun /\ pred_out = NotRun
    /\ export_out = NotRun
    /\ mix_in = NotRun
    /\ mix_out = NotRun
    /\ crop_in = NotRun
    /\ crop_out = NotRun
    /\ envi_out = NotRun
    /\ run = NotRun

\* a caller runs ortho_xr on the dataset
OrthoXr ==
    /\ ortho_out = NotRun
    /\ ortho_out' = ortho_xr(ds)
    /\ UNCHANGED <<ds, mask_in, mask_out, load_in, load_out, pred_in, pred_out, export_out, mix_in, mix_out, crop_in, crop_out, envi_out, run>>

NextOrtho == OrthoXr

SpecOrtho == InitOrtho /\ [][NextOrtho]_vars

\* ------------------------------------------------- orthorectifier: the claims
OrthoDone == ortho_out.status = "ok"

\* the GLT entry of a cell as the dataset holds it, and whether it is valid
GltX(rc) == ds.glt_x.data[rc]
GltY(rc) == ds.glt_y.data[rc]
ValidCell(rc) == GltX(rc) \notin {GLT_NODATA_VALUE, NaN} /\ GltY(rc) \notin {GLT_NODATA_VALUE, NaN}

\* the bands of an orthorectified or raw array, as index suffixes
Bands(a) == IF ndim(a) = 3 THEN {<<b>> : b \in 0 .. a.shape[3] - 1} ELSE {<<>>}

\* output[r, c, b] = source[glt_y - 1, glt_x - 1, b] at every band of cell rc
GatheredAt(out, src, rc) ==
    \A b \in Bands(src) :
        out.data[rc \o b] = src.data[<<GltY(rc) - 1, GltX(rc) - 1>> \o b]

NaNAt(out, rc) == \A b \in Bands(out) : out.data[rc \o b] = NaN

IsIdentityGlt == \A rc \in GltCells : <<GltX(rc), GltY(rc)>> = IdentityEntry(rc)

OutVars == {ortho_out.var_names[k] : k \in 1 .. Len(ortho_out.var_names)}

\* C1: every valid GLT cell of every data variable holds, in every band, the
\* value of the sensor pixel (glt_y - 1, glt_x - 1).
C1_GatherEveryVariable ==
    OrthoDone =>
        \A v \in OutVars : \A rc \in GltCells :
            ValidCell(rc) => GatheredAt(ortho_out.data_vars[v], ds.data_vars[v], rc)

\* C2: every cell whose GLT entry is no-data (0 or NaN) on either axis is NaN
\* in every band of every data variable and in the elevation coordinate.
C2_FillIsNaN ==
    OrthoDone =>
        \A rc \in GltCells :
            ~ValidCell(rc) =>
                /\ \A v \in OutVars : NaNAt(ortho_out.data_vars[v], rc)
                /\ NaNAt(ortho_out.elev, rc)

\* C2 witness: a dataset of two data variables was orthorectified through a
\* GLT that has a no-data cell on one axis only, beside a valid cell.
C2_Witness ==
    /\ OrthoDone
    /\ Cardinality(OutVars) >= 2
    /\ \E rc \in GltCells : GltX(rc) \in {GLT_NODATA_VALUE, NaN} /\ GltY(rc) \notin {GLT_NODATA_VALUE, NaN}
    /\ \E rc \in GltCells : ValidCell(rc)

\* C3: the elevation coordinate holds elev[glt_y - 1, glt_x - 1] at every
\* valid GLT cell, and elev is a coordinate, not a data variable.
C3_ElevGather ==
    OrthoDone =>
        /\ "elev" \in ortho_out.coord_names /\ "elev" \notin OutVars
        /\ \A rc \in GltCells : ValidCell(rc) => GatheredAt(ortho_out.elev, ds.elev, rc)

\* the dataset reduced to one of its data variables
OnlyVar(d, v) ==
    [d EXCEPT !.var_names = <<v>>, !.data_vars = (v :> d.data_vars[v])]

\* C4: the orthorectified result of each data variable equals the result of
\* orthorectifying that variable alone with the original GLT.
C4_VariablesIndependent ==
    OrthoDone =>
        \A v \in OutVars :
            ortho_out.data_vars[v] = ortho_xr(OnlyVar(ds, v)).data_vars[v]

\* C5: with an identity-mapped GLT every position of every data variable
\* holds the sensor grid's value at that position, and none is NaN.
C5_IdentityRoundTrip ==
    (OrthoDone /\ IsIdentityGlt) =>
        \A v \in OutVars : \A rc \in GltCells :
            /\ \A b \in Bands(ds.data_vars[v]) :
                  ortho_out.data_vars[v].data[rc \o b] = ds.data_vars[v].data[rc \o b]
            /\ ~NaNAt(ortho_out.data_vars[v], rc)

\* ================================================================ quality_mask
\* flag planes of the mask product (EMIT: 8, numbered 0..7)
NumFlags == 8
\* largest value a flag plane holds at a pixel
MaxFlagVal == 2
\* most bands a caller selects
MaxSel == 2
\* the two "data" bands that are no flags: [5,6]
DataBands == {5, 6}

Flags == 0 .. NumFlags - 1

\* the pixels of the mask array
MaskShape == <<1, 2>>
MaskPixels == Idx2(MaskShape[1], MaskShape[2])

RECURSIVE SeqsUpTo(_, _)
SeqsUpTo(S, n) ==
    IF n = 0 THEN {<<>>}
    ELSE LET shorter == SeqsUpTo(S, n - 1)
         IN shorter \cup {Append(q, x) : q \in {t \in shorter : Len(t) = n - 1}, x \in S}

\* the mask file's array mask[downtrack, crosstrack, flag]: pixel (0,0) holds
\* value v on the planes in hot, every other pixel has plane 0 set
MaskArray(hot, v) ==
    [shape |-> <<MaskShape[1], MaskShape[2], NumFlags>>,
     data |-> [i \in Idx3(MaskShape[1], MaskShape[2], NumFlags) |->
        IF <<i[1], i[2]>> = <<0, 0>>
        THEN (IF i[3] \in hot THEN v ELSE 0)
        ELSE (IF i[3] = 0 THEN 1 ELSE 0)]]

\* flags_used = mask_bands.data[quality_bands]
flags_used(quality_bands) == [k \in 1 .. Len(quality_bands) |-> quality_bands[k]]

\* has_data_band with only band 5 looked for
has_data_band_only5(quality_bands) ==
    \E k \in 1 .. Len(quality_bands) : quality_bands[k] = 5

\* any(x in quality_bands for x in [5,6])
has_data_band(quality_bands) ==
    \E x \in DataBands : \E k \in 1 .. Len(quality_bands) : quality_bands[k] = x

\* np.sum(mask[:,:,quality_bands], axis=-1) at one pixel
RECURSIVE SumPlanes(_, _, _, _)
SumPlanes(mask, px, quality_bands, k) ==
    IF k > Len(quality_bands) THEN 0
    ELSE mask.data[<<px[1], px[2], quality_bands[k]>>]
         + SumPlanes(mask, px, quality_bands, k + 1)

\* clamp_count without the rewrite: the count stays
clamp_count_skipped(n) == n

\* qmask[qmask > 1] = 1
clamp_count(n) == IF n > 1 THEN 1 ELSE n

\* quality_mask(filepath, quality_bands)
quality_mask(mask, quality_bands) ==
    IF has_data_band(quality_bands)
    THEN [status |-> "AttributeError",
          flags_used |-> flags_used(quality_bands),
          mask_computed |-> FALSE]
    ELSE [status |-> "ok",
          flags_used |-> flags_used(quality_bands),
          mask_computed |-> TRUE,
          qmask |-> [shape |-> <<mask.shape[1], mask.shape[2]>>,
                     data |-> [px \in Idx2(mask.shape[1], mask.shape[2]) |->
                         clamp_count(SumPlanes(mask, px, quality_bands, 1))]]]

InitMask ==
    /\ \E hot \in {h \in SUBSET Flags : Cardinality(h) <= MaxSel},
          v \in 1 .. MaxFlagVal,
          quality_bands \in SeqsUpTo(Flags, MaxSel) :
           mask_in = [mask |-> MaskArray(hot, v), quality_bands |-> quality_bands]
    /\ mask_out = NotRun
    /\ ds = NotRun /\ ortho_out = NotRun
    /\ load_in = NotRun /\ load_out = NotRun
    /\ pred_in = NotRun /\ pred_out = NotRun
    /\ export_out = NotRun
    /\ mix_in = NotRun
    /\ mix_out = NotRun
    /\ crop_in = NotRun
    /\ crop_out = NotRun
    /\ envi_out = NotRun
    /\ run = NotRun

\* a caller builds the quality mask
QualityMask ==
    /\ mask_out = NotRun
    /\ mask_out' = quality_mask(mask_in.mask, mask_in.quality_bands)
    /\ UNCHANGED <<ds, ortho_out, mask_in, load_in, load_out, pred_in, pred_out, export_out, mix_in, mix_out, crop_in, crop_out, envi_out, run>>

NextMask == QualityMask

SpecMask == InitMask /\ [][NextMask]_vars

\* ------------------------------------------------------ quality_mask: claims
Selected == {mask_in.quality_bands[k] : k \in 1 .. Len(mask_in.quality_bands)}

\* some selected flag plane is set (>= 1) at the pixel
SomeSelectedFires(px) ==
    \E f \in Selected : mask_in.mask.data[<<px[1], px[2], f>>] >= 1

\* C7: the mask is 0 or 1 at every pixel, and 1 exactly where the selected
\* flag planes sum to at least 1 (some selected plane is set).
C7_MaskIsBinary ==
    mask_out.status = "ok" =>
        \A px \in MaskPixels :
            /\ mask_out.qmask.data[px] \in {0, 1}
            /\ mask_out.qmask.data[px] = 1 <=> SomeSelectedFires(px)

\* C7 witness: a mask was built where two different selected flags fire on
\* the same pixel.
C7_Witness ==
    /\ mask_out.status = "ok"
    /\ \E px \in MaskPixels : \E f, g \in Selected :
          /\ f # g
          /\ mask_in.mask.data[<<px[1], px[2], f>>] >= 1
          /\ mask_in.mask.data[<<px[1], px[2], g>>] >= 1

\* C8: a selection that contains band 5 or 6 fails with an error before any
\* mask is computed and returns none; any other selection returns a mask.
C8_DataBandsRejected ==
    mask_out # NotRun =>
        IF Selected \cap {5, 6} # {}
        THEN mask_out.status = "AttributeError" /\ ~mask_out.mask_computed
             /\ "qmask" \notin DOMAIN mask_out
        ELSE mask_out.status = "ok" /\ "qmask" \in DOMAIN mask_out

\* C8 witness: a selection of band 6 together with a flag band was rejected.
C8_Witness ==
    /\ mask_out # NotRun
    /\ 6 \in Selected /\ 7 \in Selected /\ 5 \notin Selected
    /\ mask_out.status = "AttributeError"

\* ================================================================= emit_xarray
\* an argument left at its default None
None == [status |-> "None"]

SensorPixels == Idx2(DimDown, DimCross)

\* a data variable of the file: the fill sentinel -9999 in every band of the
\* pixels in fill, the pixel's own value elsewhere
FileArray3(k, fill) ==
    [shape |-> <<DimDown, DimCross, NumBands>>,
     data |-> [i \in Idx3(DimDown, DimCross, NumBands) |->
        IF <<i[1], i[2]>> \in fill THEN FillValue ELSE SrcVal(k, i[1], i[2], i[3])]]

\* the granule: its data variables in file order, and the location group
File(names, fill, g) ==
    [Dataset(names, g, NaN) EXCEPT
        !.data_vars = [v \in {names[k] : k \in 1 .. Len(names)} |->
                          FileArray3(VarNumber(names, v), fill)]]

\* numpy broadcasting of two shapes, aligned at their last axis
RECURSIVE broadcastable(_, _)
broadcastable(s, t) ==
    IF Len(s) = 0 \/ Len(t) = 0 THEN TRUE
    ELSE /\ (s[Len(s)] = t[Len(t)] \/ s[Len(s)] = 1 \/ t[Len(t)] = 1)
         /\ broadcastable(SubSeq(s, 1, Len(s) - 1), SubSeq(t, 1, Len(t) - 1))

\* out_xr[var].where(cond, np.nan) with a numpy condition: it raises when the
\* condition does not broadcast to the variable's own dimensions
where_raises(cond_shape, var_shape) ==
    Len(cond_shape) > Len(var_shape) \/ ~broadcastable(cond_shape, var_shape)

\* qmask[:,:,np.newaxis] applied n times to the 2-D mask
qmask_shape(qmask, n) == qmask.shape \o [j \in 1 .. n |-> 1]

\* out_xr[var].data[unpacked_bmask == 1] = np.nan
apply_bmask(a, unpacked_bmask) ==
    IF unpacked_bmask = None THEN a
    ELSE [a EXCEPT !.data = [i \in DOMAIN a.data |->
            IF unpacked_bmask.data[i] = 1 THEN NaN ELSE a.data[i]]]

\* the loop "for var in list(ds.data_vars)" of emit_xarray: the variables as the
\* loop leaves them, or the error it raised.  The result of .where() is not
\* assigned, so the quality mask changes no variable.
RECURSIVE load_loop(_, _, _, _, _)
load_loop(names, k, data_vars, qmask, unpacked_bmask) ==
    IF k > Len(names)
    THEN [status |-> "ok", data_vars |-> data_vars]
    ELSE LET var == names[k]
             a == data_vars[var]
         IN IF qmask # None /\ where_raises(qmask_shape(qmask, k), a.shape)
            THEN [status |-> "ValueError", error |-> "where: condition does not broadcast"]
            ELSE load_loop(names, k + 1,
                    [data_vars EXCEPT ![var] =
                        mask_fill(apply_bmask(a, unpacked_bmask), FillValue)],
                    qmask, unpacked_bmask)

\* chunk_ortho_conflict raised for either option alone
chunk_ortho_conflict_either(chunk, ortho) == chunk # None \/ ortho

\* (chunk is not None) & ortho
chunk_ortho_conflict(chunk, ortho) == chunk # None /\ ortho

\* the groups emit_xarray opens (the granules modelled carry wavelengths or
\* mask band names in sensor_band_parameters)
opened_groups == <<"root", "location", "sensor_band_parameters">>

\* emit_xarray(filepath, ortho, qmask, unpacked_bmask, chunk)
emit_xarray(file, ortho, qmask, unpacked_bmask, chunk) ==
    IF chunk_ortho_conflict(chunk, ortho)
    THEN [status |-> "ValueError", error |-> "Cannot orthorectify chunked array",
          opened |-> <<>>]
    ELSE LET loop == load_loop(file.var_names, 1, file.data_vars, qmask, unpacked_bmask)
         IN IF loop.status # "ok"
            THEN [status |-> loop.status, error |-> loop.error, opened |-> opened_groups]
            ELSE LET out_xr == [file EXCEPT !.data_vars = loop.data_vars]
                 IN [status |-> "ok",
                     opened |-> opened_groups,
                     lazy |-> chunk # None,
                     Orthorectified |-> ortho,
                     grid |-> IF ortho THEN ortho_xr(out_xr) ELSE out_xr]

\* the granules the loader is given
LoaderVarLists == { <<"reflectance">>, <<"mask", "band_mask">> }

LoaderGlts ==
    { [rc \in GltCells |-> IdentityEntry(rc)],
      [rc \in GltCells |-> IF rc = <<0, 0>> THEN <<0, 0>> ELSE IdentityEntry(rc)] }

\* quality masks: None, or 0/1 with at most one pixel set
QmaskChoices ==
    {None} \cup
    { [shape |-> <<DimDown, DimCross>>,
       data |-> [px \in SensorPixels |-> IF px \in M THEN 1 ELSE 0]] :
      M \in {{}} \cup {{px} : px \in SensorPixels} }

\* band masks: None, or one band of pixel (0,0) set
BmaskChoices ==
    {None} \cup
    { [shape |-> <<DimDown, DimCross, NumBands>>,
       data |-> [i \in Idx3(DimDown, DimCross, NumBands) |->
                    IF i = <<0, 0, b>> THEN 1 ELSE 0]] : b \in 0 .. NumBands - 1 }

ChunkChoices == {None, [downtrack |-> 100, crosstrack |-> 100]}

InitLoad ==
    /\ \E names \in LoaderVarLists, g \in LoaderGlts,
          fill \in {{}} \cup {{px} : px \in SensorPixels},
          ortho \in BOOLEAN, qmask \in QmaskChoices,
          unpacked_bmask \in BmaskChoices, chunk \in ChunkChoices :
           load_in = [file |-> File(names, fill, g), ortho |-> ortho, qmask |-> qmask,
                      unpacked_bmask |-> unpacked_bmask, chunk |-> chunk]
    /\ load_out = NotRun
    /\ ds = NotRun /\ ortho_out = NotRun
    /\ mask_in = NotRun /\ mask_out = NotRun
    /\ pred_in = NotRun /\ pred_out = NotRun
    /\ export_out = NotRun
    /\ mix_in = NotRun
    /\ mix_out = NotRun
    /\ crop_in = NotRun
    /\ crop_out = NotRun
    /\ envi_out = NotRun
    /\ run = NotRun

\* a caller loads the granule
EmitXarray ==
    /\ load_out = NotRun
    /\ load_out' = emit_xarray(load_in.file, load_in.ortho, load_in.qmask,
                               load_in.unpacked_bmask, load_in.chunk)
    /\ UNCHANGED <<ds, ortho_out, mask_in, mask_out, load_in, pred_in, pred_out, export_out, mix_in, mix_out, crop_in, crop_out, envi_out, run>>

\* ---------------------------------------------------------------- write_envi
\* write_envi(xr_ds, output_dir, glt_file=...): what it raises, if anything,
\* and the files envi.create_image has created by then.  xr_ds.Orthorectified
\* says whether attrs['Orthorectified'] is 'True'.
write_envi(xr_ds, glt_file) ==
    IF xr_ds.Orthorectified /\ glt_file
    THEN [status |-> "Exception", files |-> {}]
    ELSE LET data_files == {xr_ds.grid.var_names[k] : k \in 1 .. Len(xr_ds.grid.var_names)}
         IN IF ~glt_file
            THEN [status |-> "ok", files |-> data_files]
            ELSE IF "glt_x" \in DOMAIN xr_ds.grid
            THEN [status |-> "ok", files |-> data_files \cup {"glt"}]
            ELSE [status |-> "KeyError", files |-> data_files]

\* a caller orthorectifies a loaded sensor-space grid with ortho_xr itself;
\* the result takes the loaded dataset's attrs
OrthoXrDirect ==
    /\ load_out # NotRun
    /\ load_out.status = "ok"
    /\ ~load_out.Orthorectified
    /\ ~load_out.lazy
    /\ ortho_out = NotRun
    /\ envi_out = NotRun
    /\ ortho_out' = ortho_xr(load_out.grid)
    /\ UNCHANGED <<ds, mask_in, mask_out, load_in, load_out, pred_in, pred_out, export_out, mix_in, mix_out, crop_in, crop_out, envi_out, run>>

\* a caller writes the grid it holds: the loader's, or the one ortho_xr returned
WriteEnvi ==
    /\ load_out # NotRun
    /\ load_out.status = "ok"
    /\ envi_out = NotRun
    /\ \E glt_file \in BOOLEAN :
          LET xr_ds == IF ortho_out # NotRun
                       THEN [Orthorectified |-> load_out.Orthorectified, grid |-> ortho_out]
                       ELSE [Orthorectified |-> load_out.Orthorectified, grid |-> load_out.grid]
              orthorectified_by == IF ortho_out # NotRun THEN "ortho_xr"
                                   ELSE IF load_in.ortho THEN "emit_xarray" ELSE "none"
          IN envi_out' = [glt_file |-> glt_file, orthorectified_by |-> orthorectified_by]
                            @@ write_envi(xr_ds, glt_file)
    /\ UNCHANGED <<ds, ortho_out, mask_in, mask_out, load_in, load_out, pred_in, pred_out, export_out, mix_in, mix_out, crop_in, crop_out, run>>

NextLoad == EmitXarray \/ OrthoXrDirect \/ WriteEnvi

SpecLoad == InitLoad /\ [][NextLoad]_vars

\* ------------------------------------------------------- emit_xarray: claims
LoadedVars == {load_in.file.var_names[k] : k \in 1 .. Len(load_in.file.var_names)}

\* C6: when a quality mask is given, every data variable of the returned
\* (sensor-space) grid is NaN in every band at every pixel the mask sets to 1.
C6_QualityMaskApplied ==
    (load_out.status = "ok" /\ load_in.qmask # None /\ ~load_in.ortho) =>
        \A v \in LoadedVars : \A px \in SensorPixels :
            load_in.qmask.data[px] = 1 => NaNAt(load_out.grid.data_vars[v], px)

\* C9: a chunk specification together with ortho=True raises the error before
\* anything is opened; no other combination raises it, and no orthorectified
\* grid is ever built from a chunked array.
C9_ChunkOrthoRejected ==
    load_out # NotRun =>
        /\ (load_in.chunk # None /\ load_in.ortho) =>
              /\ load_out.status = "ValueError"
              /\ load_out.error = "Cannot orthorectify chunked array"
              /\ load_out.opened = <<>>
              /\ "grid" \notin DOMAIN load_out
        /\ ~(load_in.chunk # None /\ load_in.ortho) =>
              (load_out.status = "ok" \/ load_out.error # "Cannot orthorectify chunked array")
        /\ load_out.status = "ok" => ~(load_out.Orthorectified /\ load_out.lazy)

\* C9 witness: a call with a chunk specification and ortho=True was rejected.
C9_Witness ==
    /\ load_out # NotRun
    /\ load_in.chunk # None /\ load_in.ortho
    /\ load_out.status = "ValueError"

\* ================================================== unmix_image: tiled inference
\* classes the model predicts (output_sizes={"class": 4} in the script)
NumClasses == 2

\* the sensor grid handed to the model: downtrack x crosstrack x wavelengths
PredShape == <<1, 3, 2>>
\* the chunk sizes along downtrack and crosstrack a run may be given: one
\* pixel per tile, tiles of unequal size, the whole grid as a single tile
PredChunks == {<<1, 1>>, <<1, 2>>, <<1, 3>>}
PredPixels == Idx2(PredShape[1], PredShape[2])

\* what the regression model may return for one class of one pixel
RawVals == {0 - 1, 50, 101}

\* what it may return for one pixel: the values in turn, from any of them
RawSeq == <<0 - 1, 50, 101>>
ClassOutputs ==
    { [k \in 1 .. NumClasses |-> RawSeq[((k + r) % Len(RawSeq)) + 1]] : r \in 1 .. Len(RawSeq) }

\* the feature vectors a pixel can present after nan_to_num
FeatureVectors == [1 .. PredShape[3] - 1 -> {0, 1}]

\* a tile: its origin and its extent along both spatial axes
TilesOf(chunks) ==
    { [x0 |-> x0, y0 |-> y0,
       xs |-> IF x0 + chunks[1] > PredShape[1] THEN PredShape[1] - x0 ELSE chunks[1],
       ys |-> IF y0 + chunks[2] > PredShape[2] THEN PredShape[2] - y0 ELSE chunks[2]] :
      x0 \in {x \in 0 .. PredShape[1] - 1 : x % chunks[1] = 0},
      y0 \in {y \in 0 .. PredShape[2] - 1 : y % chunks[2] = 0} }

\* the tiles of the run
Tiles == TilesOf(pred_in.chunks)

TilePixels(t) == {px \in PredPixels : /\ px[1] >= t.x0 /\ px[1] < t.x0 + t.xs
                                      /\ px[2] >= t.y0 /\ px[2] < t.y0 + t.ys}

\* the block a task would receive if every tile were cut at the grid's origin
tile_block_origin(grid, t) ==
    [shape |-> <<t.xs, t.ys, grid.shape[3]>>,
     data |-> [i \in Idx3(t.xs, t.ys, grid.shape[3]) |-> grid.data[<<i[1], i[2], i[3]>>]]]

\* the block of the grid a tile's task receives, indexed from 0
tile_block(grid, t) ==
    [shape |-> <<t.xs, t.ys, grid.shape[3]>>,
     data |-> [i \in Idx3(t.xs, t.ys, grid.shape[3]) |->
                  grid.data[<<t.x0 + i[1], t.y0 + i[2], i[3]>>]]]

\* np.nan_to_num
nan_to_num(x) == IF x = NaN THEN 0 ELSE x

\* clip with the upper limit left out
clip_lower_only(x, lo, hi) == IF x < lo THEN lo ELSE x

\* np.clip(x, lo, hi)
clip(x, lo, hi) == IF x < lo THEN lo ELSE IF x > hi THEN hi ELSE x

\* pred_chunk(arr, fmodel): the (xs, ys, class) block for one tile.  The rows
\* of the flattened array are the pixels in x-major order; predict maps a
\* row's feature vector to one value per class.
pred_chunk(arr, predict) ==
    LET xs == arr.shape[1]
        ys == arr.shape[2]
        zs == arr.shape[3] - 1
        \* arr[:,:,:-1], rearrange 'x y z -> (x y) z', nan_to_num
        rows == [n \in 0 .. xs * ys - 1 |->
                    [z \in 1 .. zs |-> nan_to_num(arr.data[<<n \div ys, n % ys, z - 1>>])]]
        ypred == [n \in 0 .. xs * ys - 1 |->
                    [k \in 1 .. NumClasses |-> clip(predict[rows[n]][k], 0, 100)]]
    IN \* rearrange '(x y) z -> x y z'
       [shape |-> <<xs, ys, NumClasses>>,
        data |-> [i \in Idx3(xs, ys, NumClasses) |-> ypred[i[1] * ys + i[2]][i[3] + 1]]]

\* res.where(mask != 1, -9999) with mask broadcast along the class axis
mask_result(res, mask) ==
    [res EXCEPT !.data = [i \in DOMAIN res.data |->
        IF mask.data[<<i[1], i[2]>>] # 1 THEN res.data[i] ELSE FillValue]]

\* the grid: the first wavelengths are 1 or NaN, the last one (dropped) is 9
PredGrid(f) ==
    [shape |-> PredShape,
     data |-> [i \in Idx3(PredShape[1], PredShape[2], PredShape[3]) |->
                  IF i[3] = PredShape[3] - 1 THEN 9 ELSE f[<<i[1], i[2]>>]]]

InitPred ==
    /\ \E f \in [PredPixels -> {1, NaN}],
          predict \in [FeatureVectors -> ClassOutputs],
          m \in [PredPixels -> {0, 1}],
          chunks \in PredChunks :
           pred_in = [grid |-> PredGrid(f), predict |-> predict, chunks |-> chunks,
                      mask |-> [shape |-> <<PredShape[1], PredShape[2]>>, data |-> m]]
    /\ pred_out = [tiles |-> {}, ypred |-> <<>>, res |-> NotRun]
    /\ ds = NotRun /\ ortho_out = NotRun
    /\ mask_in = NotRun /\ mask_out = NotRun
    /\ load_in = NotRun /\ load_out = NotRun
    /\ export_out = NotRun
    /\ mix_in = NotRun
    /\ mix_out = NotRun
    /\ crop_in = NotRun
    /\ crop_out = NotRun
    /\ envi_out = NotRun
    /\ run = NotRun

\* a worker runs pred_chunk on one tile and stores its block
PredChunk(t) ==
    /\ t \notin pred_out.tiles
    /\ LET block == pred_chunk(tile_block(pred_in.grid, t), pred_in.predict)
           placed == [i \in TilePixels(t) \X (0 .. NumClasses - 1) |->
                         block.data[<<i[1][1] - t.x0, i[1][2] - t.y0, i[2]>>]]
       IN pred_out' = [pred_out EXCEPT !.tiles = @ \cup {t},
                                       !.ypred = @ @@ placed]
    /\ UNCHANGED <<ds, ortho_out, mask_in, mask_out, load_in, load_out, pred_in, export_out, mix_in, mix_out, crop_in, crop_out, envi_out, run>>

\* the script masks the reassembled prediction once every tile is computed
MaskResult ==
    /\ pred_out.tiles = Tiles
    /\ pred_out.res = NotRun
    /\ pred_out' = [pred_out EXCEPT !.res =
          mask_result([shape |-> <<PredShape[1], PredShape[2], NumClasses>>,
                       data |-> [i \in Idx3(PredShape[1], PredShape[2], NumClasses) |->
                                    pred_out.ypred[<<<<i[1], i[2]>>, i[3]>>]]],
                      pred_in.mask)]
    /\ UNCHANGED <<ds, ortho_out, mask_in, mask_out, load_in, load_out, pred_in, export_out, mix_in, mix_out, crop_in, crop_out, envi_out, run>>

\* ---------------------------------------------- unmix_image: the export
\* the geographic grid of the granule's GLT
ExportGltShape == <<2, 2>>
ExportCells == Idx2(ExportGltShape[1], ExportGltShape[2])

\* the granule's GLT: the cells run through the sensor's crosstrack pixels;
\* the last cell holds a sensor pixel or no-data
ExportGlts ==
    { [rc \in ExportCells |->
          IF rc \in holes THEN <<0, 0>>
          ELSE <<((ExportGltShape[2] * rc[1] + rc[2]) % PredShape[2]) + 1, 1>>] :
      holes \in {{}, {<<ExportGltShape[1] - 1, ExportGltShape[2] - 1>>}} }

\* res as ortho_xr receives it: the one data variable "reflectance" with the
\* class axis, and the coordinates emit_xarray attached (no-data decoded to NaN)
ExportDataset(res, g) ==
    [var_names |-> <<"reflectance">>,
     data_vars |-> ("reflectance" :> res),
     elev |-> [shape |-> <<PredShape[1], PredShape[2]>>,
               data |-> [i \in PredPixels |-> SrcVal(0, i[1], i[2], 0)]],
     glt_x |-> [shape |-> ExportGltShape,
                data |-> [rc \in ExportCells |-> IF g[rc][1] = 0 THEN NaN ELSE g[rc][1]]],
     glt_y |-> [shape |-> ExportGltShape,
                data |-> [rc \in ExportCells |-> IF g[rc][2] = 0 THEN NaN ELSE g[rc][2]]]]

\* .fillna(255)
fillna(a, value) ==
    [a EXCEPT !.data = [i \in DOMAIN a.data |-> IF a.data[i] = NaN THEN value ELSE a.data[i]]]

\* What a float-to-int8 cast makes of a value outside -128..127: C leaves it
\* undefined; builds either keep the low 8 bits or saturate.
Int8Casts == {"wrap", "saturate"}

\* .astype("int8") of one value
astype_int8(x, cast) ==
    IF x >= 0 - 128 /\ x <= 127 THEN x
    ELSE IF cast = "wrap" THEN ((x + 128) % 256) - 128
    ELSE IF x > 127 THEN 127 ELSE 0 - 128

\* res["reflectance"].to_dataset(dim="class").fillna(255).astype("int8"):
\* one band per class
encode_raster(ortho, cast) ==
    LET filled == fillna(ortho.data_vars["reflectance"], 255)
    IN [filled EXCEPT !.data = [i \in DOMAIN filled.data |-> astype_int8(filled.data[i], cast)]]

\* the script orthorectifies the masked result, encodes it and writes the raster
ExportRaster ==
    /\ pred_out.res # NotRun
    /\ export_out = NotRun
    /\ \E g \in ExportGlts, cast \in Int8Casts :
          export_out' = [glt |-> g, cast |-> cast,
                         raster |-> encode_raster(ortho_xr(ExportDataset(pred_out.res, g)), cast)]
    /\ UNCHANGED <<ds, ortho_out, mask_in, mask_out, load_in, load_out, pred_in, pred_out, mix_in, mix_out, crop_in, crop_out, envi_out, run>>

NextPred == (\E t \in Tiles : PredChunk(t)) \/ MaskResult \/ ExportRaster

SpecPred == InitPred /\ [][NextPred]_vars

\* --------------------------------------------------- tiled inference: claims
\* the model's raw output for a pixel: predict on its features with NaN as 0
RawAt(px) ==
    pred_in.predict[[z \in 1 .. PredShape[3] - 1 |->
        IF pred_in.grid.data[<<px[1], px[2], z - 1>>] = NaN THEN 0
        ELSE pred_in.grid.data[<<px[1], px[2], z - 1>>]]]

\* C10: every value pred_chunk returns lies in [0,100]; after masking the
\* result is -9999 in every class at every masked pixel and the prediction,
\* limited to [0,100], at every other pixel.
C10_ClippedThenMasked ==
    /\ \A i \in DOMAIN pred_out.ypred :
          pred_out.ypred[i] >= 0 /\ pred_out.ypred[i] <= 100
    /\ pred_out.res # NotRun =>
          \A px \in PredPixels : \A k \in 1 .. NumClasses :
              LET r == pred_out.res.data[<<px[1], px[2], k - 1>>]
                  raw == RawAt(px)[k]
              IN IF pred_in.mask.data[px] = 1
                 THEN r = 0 - 9999
                 ELSE /\ raw < 0 => r = 0
                      /\ raw > 100 => r = 100
                      /\ (raw >= 0 /\ raw <= 100) => r = raw

\* C10 witness: the masked result exists for a grid with a masked pixel and
\* unmasked pixels whose raw predictions fall below 0 and above 100.
C10_Witness ==
    /\ pred_out.res # NotRun
    /\ \E px \in PredPixels : pred_in.mask.data[px] = 1 /\ RawAt(px)[1] = 50
    /\ \E px \in PredPixels : \E k \in 1 .. NumClasses :
          pred_in.mask.data[px] = 0 /\ RawAt(px)[k] > 100
    /\ \E px \in PredPixels : \E k \in 1 .. NumClasses :
          pred_in.mask.data[px] = 0 /\ RawAt(px)[k] < 0

\* ------------------------------------------- tile independence: claims
\* the prediction of the whole grid computed as a single tile
WholeGrid == pred_chunk(pred_in.grid, pred_in.predict)

\* C17: tiles do not depend on each other: in whatever order the tiles of any
\* partition have been computed, every value placed so far is the value the
\* whole grid computed as a single tile holds at that pixel and class, and
\* once every tile is placed the result covers the grid in its original layout.
C17_TileOrderIrrelevant ==
    /\ \A i \in DOMAIN pred_out.ypred :
          pred_out.ypred[i] = WholeGrid.data[<<i[1][1], i[1][2], i[2]>>]
    /\ DOMAIN pred_out.ypred =
          (UNION {TilePixels(t) : t \in pred_out.tiles}) \X (0 .. NumClasses - 1)
    /\ pred_out.tiles = Tiles =>
          DOMAIN pred_out.ypred = PredPixels \X (0 .. NumClasses - 1)

\* C17 witness: a partition into one-pixel tiles is fully computed on a grid
\* whose pixels do not all predict the same values.
C17_Witness ==
    /\ Cardinality(Tiles) = PredShape[1] * PredShape[2]
    /\ pred_out.tiles = Tiles
    /\ \E p \in PredPixels, q \in PredPixels :
          WholeGrid.data[<<p[1], p[2], 0>>] # WholeGrid.data[<<q[1], q[2], 0>>]

\* --------------------------------------------------- exported raster: claims
\* the sensor pixel a geographic cell of the exported raster draws from
ExportSource(rc) == <<export_out.glt[rc][2] - 1, export_out.glt[rc][1] - 1>>

ExportNoData(rc) ==
    \/ export_out.glt[rc][1] = 0
    \/ export_out.glt[rc][2] = 0
    \/ pred_in.mask.data[ExportSource(rc)] = 1

\* C11: in the exported raster every quality-masked pixel and every pixel
\* without a valid GLT entry holds 255 in every class band, and every other
\* pixel holds a value in [0,100].
C11_NoDataIs255 ==
    export_out # NotRun =>
        \A rc \in ExportCells : \A k \in 0 .. NumClasses - 1 :
            LET v == export_out.raster.data[<<rc[1], rc[2], k>>]
            IN IF ExportNoData(rc) THEN v = 255 ELSE v >= 0 /\ v <= 100

\* ------------------------------------------------------------ mix_fast
\* most records the input dataframe holds
NumRecords == 3

\* The weights np.random.dirichlet draws sum to 1.0; a weight is counted in
\* parts of 1/WeightUnits, so that 1.0 is WeightUnits parts.
WeightUnits == 4

\* the labels the Category column takes
ClassLabels == {1, 2, 3}

\* nsamp
SampleCounts == {1, 2}

\* the set of values a sequence holds
Range(s) == {s[i] : i \in 1 .. Len(s)}

\* the elements of a set of numbers in ascending order
RECURSIVE SortedSeq(_)
SortedSeq(S) ==
    IF S = {} THEN <<>>
    ELSE LET m == CHOOSE x \in S : \A y \in S : x <= y
         IN <<m>> \o SortedSeq(S \ {m})

\* list(df['Category'].unique())
all_class(df) == Range(df.Category)

\* np.random.randint(1, 3): 1 or 2
NClassChoices == {1, 2}

\* np.random.choice(num_rows, size=nclass, replace=False): distinct row
\* numbers in the order drawn
RowChoices(num_rows, nclass) ==
    {r \in [1 .. nclass -> 1 .. num_rows] : \A i, j \in 1 .. nclass : i # j => r[i] # r[j]}

\* np.random.dirichlet(np.ones(k)): positive weights that sum to 1
RECURSIVE SumSeq(_)
SumSeq(s) == IF s = <<>> THEN 0 ELSE s[1] + SumSeq(Tail(s))

WeightChoices(k) ==
    {w \in [1 .. k -> 1 .. WeightUnits] : SumSeq(w) = WeightUnits}

\* df.iloc[selected_rows,:-1].multiply(weights, axis=0).sum(axis=0)
weighted_features(df, selected_rows, weights) ==
    SumSeq([i \in 1 .. Len(selected_rows) |-> weights[i] * df.features[selected_rows[i]]])

\* weight_df.pivot_table(index=weight_df.index, columns='Category',
\* values='weight', aggfunc='sum'): one row per drawn record, one column per
\* drawn class, the weight in the row's own class and NaN elsewhere
pivot_table(class_vector, weights) ==
    [columns |-> Range(class_vector),
     cells |-> [i \in 1 .. Len(class_vector) |->
                  [c \in Range(class_vector) |->
                      IF class_vector[i] = c THEN weights[i] ELSE NaN]]]

\* pivot_df.fillna(0)
pivot_fillna(pivot) ==
    [pivot EXCEPT !.cells = [i \in DOMAIN pivot.cells |->
        [c \in pivot.columns |-> IF pivot.cells[i][c] = NaN THEN 0 ELSE pivot.cells[i][c]]]]

\* for class_ in all_class: if class_ not in pivot_df.columns: pivot_df[class_] = 0.0
pivot_add_missing(pivot, classes) ==
    [columns |-> pivot.columns \cup classes,
     cells |-> [i \in DOMAIN pivot.cells |->
                  [c \in pivot.columns \cup classes |->
                      IF c \in pivot.columns THEN pivot.cells[i][c] ELSE 0]]]

\* a column reduction that keeps the first row only
column_first(pivot, c) == pivot.cells[1][c]

\* .sum(axis=0) of one column
column_sum(pivot, c) == SumSeq([i \in DOMAIN pivot.cells |-> pivot.cells[i][c]])

\* pivot_df.sort_index(axis=1).sum(axis=0)
pivot_sum(pivot) ==
    [columns |-> SortedSeq(pivot.columns),
     values |-> [c \in pivot.columns |-> column_sum(pivot, c)]]

\* one pass of the loop body: the synthetic record of a draw
mix_row(df, selected_rows, weights) ==
    LET class_vector == [i \in 1 .. Len(selected_rows) |-> df.Category[selected_rows[i]]]
        pivot_df == pivot_add_missing(pivot_fillna(pivot_table(class_vector, weights)),
                                      all_class(df))
        summed == pivot_sum(pivot_df)
    IN [features |-> weighted_features(df, selected_rows, weights),
        columns |-> summed.columns,
        proportions |-> summed.values]

\* the input dataframes: 1 .. NumRecords records, each with a label and one
\* feature column
MixFrames ==
    UNION { { [Category |-> cat, features |-> [i \in 1 .. n |-> 10 * i]] :
                cat \in [1 .. n -> ClassLabels] } : n \in 1 .. NumRecords }

InitMix ==
    /\ \E df \in MixFrames, nsamp \in SampleCounts : mix_in = [df |-> df, nsamp |-> nsamp]
    /\ mix_out = [status |-> "ok", df_synthetic |-> <<>>, draws |-> <<>>]
    /\ ds = NotRun /\ ortho_out = NotRun
    /\ mask_in = NotRun /\ mask_out = NotRun
    /\ load_in = NotRun /\ load_out = NotRun
    /\ pred_in = NotRun /\ pred_out = NotRun
    /\ export_out = NotRun
    /\ crop_in = NotRun
    /\ crop_out = NotRun
    /\ envi_out = NotRun
    /\ run = NotRun

\* one iteration of "for i in range(num_synthetic_rows)"; np.random.choice
\* raises when it is asked for more distinct rows than the frame holds
MixRow ==
    /\ mix_out.status = "ok"
    /\ Len(mix_out.df_synthetic) < mix_in.nsamp
    /\ \E nclass \in NClassChoices :
          IF nclass > Len(mix_in.df.Category)
          THEN mix_out' = [mix_out EXCEPT !.status = "ValueError"]
          ELSE \E selected_rows \in RowChoices(Len(mix_in.df.Category), nclass),
                  weights \in WeightChoices(nclass) :
                   mix_out' = [mix_out EXCEPT
                       !.df_synthetic = Append(@, mix_row(mix_in.df, selected_rows, weights)),
                       !.draws = Append(@, [selected_rows |-> selected_rows,
                                            weights |-> weights])]
    /\ UNCHANGED <<ds, ortho_out, mask_in, mask_out, load_in, load_out, pred_in, pred_out, export_out, mix_in, crop_in, crop_out, envi_out, run>>

NextMix == MixRow

SpecMix == InitMix /\ [][NextMix]_vars

\* ------------------------------------------------------- mix_fast: claims
\* the classes a draw selected, and the weight a draw gave to a class
DrawnClasses(d) == {mix_in.df.Category[d.selected_rows[i]] : i \in 1 .. Len(d.selected_rows)}

DrawnWeight(d, c) ==
    SumSeq([i \in 1 .. Len(d.selected_rows) |->
               IF mix_in.df.Category[d.selected_rows[i]] = c THEN d.weights[i] ELSE 0])

\* C12: every synthetic record's class-proportion vector has one entry for
\* every class present in the input, in ascending class order; each entry is
\* nonnegative, 0 for a class not drawn, the sum of the weights of the drawn
\* records of that class otherwise (both weights when drawn twice), and the
\* entries sum to 1.
C12_ProportionVector ==
    \A n \in 1 .. Len(mix_out.df_synthetic) :
        LET rec == mix_out.df_synthetic[n]
            d == mix_out.draws[n]
        IN /\ DOMAIN rec.proportions = all_class(mix_in.df)
           /\ Range(rec.columns) = all_class(mix_in.df)
           /\ \A i \in 1 .. Len(rec.columns) - 1 : rec.columns[i] < rec.columns[i + 1]
           /\ \A c \in all_class(mix_in.df) :
                 /\ rec.proportions[c] >= 0
                 /\ c \notin DrawnClasses(d) => rec.proportions[c] = 0
                 /\ rec.proportions[c] = DrawnWeight(d, c)
           /\ SumSeq([i \in 1 .. Len(rec.columns) |-> rec.proportions[rec.columns[i]]])
                 = WeightUnits

\* C12 witness: a record that drew one class twice while another class of the
\* input was not drawn, and a record that drew two different classes.
C12_Witness ==
    /\ \E n \in 1 .. Len(mix_out.df_synthetic) :
          LET d == mix_out.draws[n]
          IN /\ Len(d.selected_rows) = 2
             /\ Cardinality(DrawnClasses(d)) = 1
             /\ all_class(mix_in.df) # DrawnClasses(d)
    /\ \E n \in 1 .. Len(mix_out.df_synthetic) :
          Cardinality(DrawnClasses(mix_out.draws[n])) = 2

\* ------------------------------------------------------------ coord_vects
\* Geographic coordinates are counted in a unit in which every pixel size is
\* an even number, so that half a pixel is a whole number of units.
half(x) == x \div 2

\* GT[i] of a geotransform (origin x, pixel width, rotation, origin y,
\* rotation, pixel height), indexed from 0 as the code indexes it
GT(gt, i) == gt[i + 1]

\* the coordinate of a pixel's corner in place of its centre
coord_vects_corner(d) ==
    [lon |-> [x \in 0 .. d.glt_x.shape[2] - 1 |->
                 GT(d.geotransform, 0) + x * GT(d.geotransform, 1)],
     lat |-> [y \in 0 .. d.glt_x.shape[1] - 1 |->
                 GT(d.geotransform, 3) + y * GT(d.geotransform, 5)]]

\* coord_vects(ds): lon over dim_x = glt_x.shape[1], lat over dim_y = glt_x.shape[0]
coord_vects(d) ==
    [lon |-> [x \in 0 .. d.glt_x.shape[2] - 1 |->
                 (GT(d.geotransform, 0) + half(GT(d.geotransform, 1)))
                     + x * GT(d.geotransform, 1)],
     lat |-> [y \in 0 .. d.glt_x.shape[1] - 1 |->
                 (GT(d.geotransform, 3) + half(GT(d.geotransform, 5)))
                     + y * GT(d.geotransform, 5)]]

\* ------------------------------------------------------- raw_spatial_crop
\* np.nanmin / np.nanmax of an array: NaN when every entry is NaN
nanmin(a) ==
    LET vals == {a.data[i] : i \in DOMAIN a.data} \ {NaN}
    IN IF vals = {} THEN NaN ELSE CHOOSE m \in vals : \A v \in vals : m <= v

nanmax(a) ==
    LET vals == {a.data[i] : i \in DOMAIN a.data} \ {NaN}
    IN IF vals = {} THEN NaN ELSE CHOOSE m \in vals : \A v \in vals : m >= v

MinOf(S) == CHOOSE m \in S : \A v \in S : m <= v
MaxOf(S) == CHOOSE m \in S : \A v \in S : m >= v

\* How the clip reports the origin of the clipped grid: at the corner of its
\* first cell, or half a pixel before it as line 490 records.
ClipOrigins == {"corner", "half_before"}

\* glt_ds.rio.clip(shape.geometry.values, shape.crs, all_touched=True): the
\* window of rows and columns that hold a touched cell; cells of the window the
\* polygon does not touch become NaN.  keep is the set of touched cells.
rio_clip(d, cv, keep, origin) ==
    LET r0 == MinOf({rc[1] : rc \in keep})
        r1 == MaxOf({rc[1] : rc \in keep})
        c0 == MinOf({rc[2] : rc \in keep})
        c1 == MaxOf({rc[2] : rc \in keep})
        cut(a) == [shape |-> <<r1 - r0 + 1, c1 - c0 + 1>>,
                   data |-> [i \in Idx2(r1 - r0 + 1, c1 - c0 + 1) |->
                                IF <<r0 + i[1], c0 + i[2]>> \in keep
                                THEN a.data[<<r0 + i[1], c0 + i[2]>>] ELSE NaN]]
        back(size) == IF origin = "corner" THEN half(size) ELSE size
    IN [glt_x |-> cut(d.glt_x),
        glt_y |-> cut(d.glt_y),
        ortho_y |-> [i \in 0 .. r1 - r0 |-> r0 + i],
        ortho_x |-> [j \in 0 .. c1 - c0 |-> c0 + j],
        latitude |-> [i \in 0 .. r1 - r0 |-> cv.lat[r0 + i]],
        longitude |-> [j \in 0 .. c1 - c0 |-> cv.lon[c0 + j]],
        GeoTransform |->
            << cv.lon[c0] - back(GT(d.geotransform, 1)), GT(d.geotransform, 1), 0,
               cv.lat[r0] - back(GT(d.geotransform, 5)), 0, GT(d.geotransform, 5) >>]

\* the shift by a whole pixel
shift_whole_pixel(gt) ==
    [gt EXCEPT ![1] = GT(gt, 0) + GT(gt, 1), ![4] = GT(gt, 3) + GT(gt, 5)]

\* clipped_gt[0] += clipped_gt[1]/2 ; clipped_gt[3] += clipped_gt[5]/2
shift_half_pixel(gt) ==
    [gt EXCEPT ![1] = GT(gt, 0) + half(GT(gt, 1)), ![4] = GT(gt, 3) + half(GT(gt, 5))]

\* a track mask that starts at the smallest 1-based index itself
track_mask_no_offset(n, lo, hi) ==
    IF lo = NaN THEN {} ELSE {t \in 0 .. n - 1 : t >= lo /\ t <= hi}

\* (ds.crosstrack >= nanmin - 1) & (ds.crosstrack <= nanmax): the 0-based
\* sensor indices kept; a comparison with NaN is False
track_mask(n, lo, hi) ==
    IF lo = NaN THEN {} ELSE {t \in 0 .. n - 1 : t >= lo - 1 /\ t <= hi}

\* ds.where(crosstrack_mask & downtrack_mask, drop=True) on one array of the
\* dataset: the rows and columns the mask keeps
where_drop(a, downs, crosses) ==
    LET empty == downs = {} \/ crosses = {}
        nd == IF empty THEN 0 ELSE Cardinality(downs)
        nc == IF empty THEN 0 ELSE Cardinality(crosses)
        d0 == IF empty THEN 0 ELSE MinOf(downs)
        c0 == IF empty THEN 0 ELSE MinOf(crosses)
    IN IF ndim(a) = 2
       THEN [shape |-> <<nd, nc>>,
             data |-> [i \in Idx2(nd, nc) |-> a.data[<<d0 + i[1], c0 + i[2]>>]]]
       ELSE [shape |-> <<nd, nc, a.shape[3]>>,
             data |-> [i \in Idx3(nd, nc, a.shape[3]) |->
                          a.data[<<d0 + i[1], c0 + i[2], i[3]>>]]]

\* the re-indexing without the shift to a 1-based index
glt_reindex_zero_based(g) ==
    LET lo == nanmin(g)
    IN [g EXCEPT !.data = [rc \in DOMAIN g.data |->
           IF g.data[rc] = NaN THEN NaN ELSE g.data[rc] - lo]]

\* (clipped.glt_x.data - np.nanmin(clipped.glt_x)) + 1 : NaN stays NaN
glt_reindex(g) ==
    LET lo == nanmin(g)
    IN [g EXCEPT !.data = [rc \in DOMAIN g.data |->
           IF g.data[rc] = NaN THEN NaN ELSE (g.data[rc] - lo) + 1]]

\* np.nan_to_num of an array
nan_to_num_array(a) == [a EXCEPT !.data = [i \in DOMAIN a.data |-> nan_to_num(a.data[i])]]

\* raw_spatial_crop(ds, shape)
raw_spatial_crop(d, keep, origin) ==
    LET cv == coord_vects(d)
        clipped == rio_clip(d, cv, keep, origin)
        clipped_gt == shift_half_pixel(clipped.GeoTransform)
        crosstrack_mask == track_mask(d.elev.shape[2], nanmin(clipped.glt_x), nanmax(clipped.glt_x))
        downtrack_mask == track_mask(d.elev.shape[1], nanmin(clipped.glt_y), nanmax(clipped.glt_y))
        first == where_drop(d.data_vars[d.var_names[1]], downtrack_mask, crosstrack_mask)
    IN [status |-> "ok",
        lon |-> cv.lon,
        lat |-> cv.lat,
        clipped |-> clipped,
        clipped_ds |->
            [var_names |-> d.var_names,
             data_vars |-> [v \in DOMAIN d.data_vars |->
                               where_drop(d.data_vars[v], downtrack_mask, crosstrack_mask)],
             elev |-> where_drop(d.elev, downtrack_mask, crosstrack_mask),
             geotransform |-> clipped_gt,
             glt_x |-> nan_to_num_array(glt_reindex(clipped.glt_x)),
             glt_y |-> nan_to_num_array(glt_reindex(clipped.glt_y)),
             downtrack |-> [i \in 0 .. first.shape[1] - 1 |-> i],
             crosstrack |-> [i \in 0 .. first.shape[2] - 1 |-> i]]]

\* ------------------------------------------------------------ crop inputs
\* the geotransforms of the granules; the second carries rotation terms
GeoTransforms == { <<10, 2, 0, 20, 0, 0 - 2>>, <<0 - 7, 4, 3, 5, 3, 0 - 6>> }

\* the data variables of the cropped granules: a 3-D product and the 2-D one
CropVarLists == { <<"reflectance">>, <<"group_1_band_depth", "group_1_mineral_id">> }

\* the GLTs of the cropped granules: the cells run through the sensor grid
\* from any pixel on, and at most one cell holds no sensor pixel
CropGlts ==
    { [rc \in GltCells |->
          IF rc \in holes THEN <<0, 0>>
          ELSE <<((rc[2] + dx) % DimCross) + 1, ((rc[1] + dy) % DimDown) + 1>>] :
      dx \in 0 .. DimCross - 1, dy \in 0 .. DimDown - 1,
      holes \in {{}} \cup {{rc} : rc \in GltCells} }

\* the cells a polygon touches: a rectangle of cells, or a rectangle without
\* one of its corners
Rectangles ==
    { (r0 .. r1) \X (c0 .. c1) :
        r0 \in 0 .. GltShape[1] - 1, r1 \in 0 .. GltShape[1] - 1,
        c0 \in 0 .. GltShape[2] - 1, c1 \in 0 .. GltShape[2] - 1 } \ {{}}

PolygonCells ==
    Rectangles \cup
    { R \ {corner} :
        R \in {X \in Rectangles : Cardinality(X) >= 4},
        corner \in GltCells }

InitCrop ==
    /\ \E names \in CropVarLists, g \in CropGlts, gt \in GeoTransforms :
          ds = [geotransform |-> gt] @@ Dataset(names, g, NaN)
    /\ \E keep \in PolygonCells : crop_in = [keep |-> keep]
    /\ crop_out = NotRun
    /\ ortho_out = NotRun
    /\ mask_in = NotRun /\ mask_out = NotRun
    /\ load_in = NotRun /\ load_out = NotRun
    /\ pred_in = NotRun /\ pred_out = NotRun
    /\ export_out = NotRun
    /\ mix_in = NotRun /\ mix_out = NotRun
    /\ envi_out = NotRun
    /\ run = NotRun

RawSpatialCrop ==
    /\ crop_out = NotRun
    /\ \E origin \in ClipOrigins : crop_out' = raw_spatial_crop(ds, crop_in.keep, origin)
    /\ UNCHANGED <<ds, ortho_out, mask_in, mask_out, load_in, load_out, pred_in, pred_out, export_out, mix_in, mix_out, crop_in, envi_out, run>>

NextCrop == RawSpatialCrop

SpecCrop == InitCrop /\ [][NextCrop]_vars

\* ---------------------------------------------------------- crop: claims
CropDone == crop_out # NotRun

\* the cells of the clipped GLT, and the cell of the original GLT each one is
ClippedCells == DOMAIN crop_out.clipped.glt_x.data

OrigCell(i) == <<crop_out.clipped.ortho_y[i[1]], crop_out.clipped.ortho_x[i[2]]>>

\* a cell whose re-indexed entry is valid on both axes
ReindexedValid(i) ==
    /\ crop_out.clipped_ds.glt_x.data[i] # 0
    /\ crop_out.clipped_ds.glt_y.data[i] # 0

\* the bands of a variable as apply_glt sees it
CropBands(v) ==
    IF ndim(ds.data_vars[v]) = 2 THEN {0} ELSE 0 .. ds.data_vars[v].shape[3] - 1

\* the sensor value of a variable at a pixel and band
ValueAt(a, d, c, b) == IF ndim(a) = 2 THEN a.data[<<d, c>>] ELSE a.data[<<d, c, b>>]

\* one variable of the cropped dataset orthorectified with the re-indexed GLT
CropOrtho(v) ==
    apply_glt(crop_out.clipped_ds.data_vars[v],
              build_glt_ds(crop_out.clipped_ds, GLT_NODATA_VALUE),
              FillValue, GLT_NODATA_VALUE).out_ds

\* the first data variable of the cropped dataset as ortho_xr returns it
CropOrthoXrFirst == ortho_xr(crop_out.clipped_ds).data_vars[ds.var_names[1]]

Abs(x) == IF x < 0 THEN 0 - x ELSE x

\* C14: a crop with a polygon that covers the whole extent keeps the GLT's
\* grid, maps every cell to the sensor pixel the original GLT maps it to (and
\* no-data to no-data), keeps both pixel sizes, and its corrected origin is
\* within half a pixel of the original origin on each axis.
C14_FullExtentCrop ==
    (CropDone /\ crop_in.keep = GltCells) =>
        /\ crop_out.clipped_ds.glt_x.shape = ds.glt_x.shape
        /\ \A rc \in GltCells :
              IF ds.glt_x.data[rc] = NaN \/ ds.glt_y.data[rc] = NaN
              THEN ~ReindexedValid(rc)
              ELSE /\ ReindexedValid(rc)
                   /\ crop_out.clipped_ds.elev.data[<<crop_out.clipped_ds.glt_y.data[rc] - 1,
                                                      crop_out.clipped_ds.glt_x.data[rc] - 1>>]
                        = ds.elev.data[<<ds.glt_y.data[rc] - 1, ds.glt_x.data[rc] - 1>>]
        /\ GT(crop_out.clipped_ds.geotransform, 1) = GT(ds.geotransform, 1)
        /\ GT(crop_out.clipped_ds.geotransform, 5) = GT(ds.geotransform, 5)
        /\ 2 * Abs(GT(crop_out.clipped_ds.geotransform, 0) - GT(ds.geotransform, 0))
              <= Abs(GT(ds.geotransform, 1))
        /\ 2 * Abs(GT(crop_out.clipped_ds.geotransform, 3) - GT(ds.geotransform, 3))
              <= Abs(GT(ds.geotransform, 5))

\* C14 witness: a full-extent crop of a GLT with a no-data cell whose clip
\* reported the origin at the corner of the first cell.
C14_Witness ==
    /\ CropDone
    /\ crop_in.keep = GltCells
    /\ \E rc \in GltCells : ds.glt_x.data[rc] = NaN
    /\ GT(crop_out.clipped.GeoTransform, 0) = GT(ds.geotransform, 0)

\* the re-indexing of one axis: g is the clipped GLT, n the re-indexed one
ReindexedAxis(g, n) ==
    /\ \A i \in DOMAIN g.data : g.data[i] = NaN <=> n.data[i] = 0
    /\ \A i \in DOMAIN g.data : g.data[i] # NaN => n.data[i] >= 1
    /\ \A i \in DOMAIN g.data :
          (g.data[i] # NaN /\ \A j \in DOMAIN g.data : g.data[j] # NaN => g.data[i] <= g.data[j])
              => n.data[i] = 1
    /\ \A i, j \in DOMAIN g.data :
          (g.data[i] # NaN /\ g.data[j] # NaN)
              => n.data[i] - n.data[j] = g.data[i] - g.data[j]

\* C16: on each axis the smallest valid index of the clipped GLT becomes
\* exactly 1, the other valid indices keep their offset from it, every invalid
\* entry becomes 0 and no invalid entry becomes a valid index.
C16_ReindexFromOne ==
    CropDone =>
        /\ ReindexedAxis(crop_out.clipped.glt_x, crop_out.clipped_ds.glt_x)
        /\ ReindexedAxis(crop_out.clipped.glt_y, crop_out.clipped_ds.glt_y)

\* C16 witness: a clipped GLT with an invalid entry whose smallest valid index
\* is above 1 on the crosstrack axis and which holds two different valid
\* indices on the downtrack axis.
C16_Witness ==
    /\ CropDone
    /\ \E i \in ClippedCells : crop_out.clipped.glt_x.data[i] = NaN
    /\ nanmin(crop_out.clipped.glt_x) # NaN
    /\ nanmin(crop_out.clipped.glt_x) > 1
    /\ nanmax(crop_out.clipped.glt_y) > nanmin(crop_out.clipped.glt_y)

\* C18: lon has one entry per GLT column and lat one per GLT row; the first
\* coordinate is the centre of the first pixel (midway between the origin and
\* the origin plus one pixel), consecutive coordinates differ by one pixel
\* size, and the rotation terms of the geotransform play no part.
C18_PixelCentreVectors ==
    CropDone =>
        /\ DOMAIN crop_out.lon = 0 .. ds.glt_x.shape[2] - 1
        /\ DOMAIN crop_out.lat = 0 .. ds.glt_x.shape[1] - 1
        /\ 2 * crop_out.lon[0] = GT(ds.geotransform, 0) + (GT(ds.geotransform, 0) + GT(ds.geotransform, 1))
        /\ 2 * crop_out.lat[0] = GT(ds.geotransform, 3) + (GT(ds.geotransform, 3) + GT(ds.geotransform, 5))
        /\ \A x \in 0 .. ds.glt_x.shape[2] - 2 :
              crop_out.lon[x + 1] - crop_out.lon[x] = GT(ds.geotransform, 1)
        /\ \A y \in 0 .. ds.glt_x.shape[1] - 2 :
              crop_out.lat[y + 1] - crop_out.lat[y] = GT(ds.geotransform, 5)

\* C18 witness: the vectors of a grid with two or more rows and columns whose
\* geotransform carries rotation terms.
C18_Witness ==
    /\ CropDone
    /\ ds.glt_x.shape[1] >= 2 /\ ds.glt_x.shape[2] >= 2
    /\ GT(ds.geotransform, 2) # 0 /\ GT(ds.geotransform, 4) # 0

\* ------------------------------------------------------ write_envi: claims
\* C15: a grid that has been orthorectified, by the loader or by ortho_xr
\* itself, is rejected with an error before any file is created when a GLT
\* file is requested, and a grid that has not been orthorectified is never
\* rejected by that check.
C15_OrthoGltRejected ==
    envi_out # NotRun =>
        /\ (envi_out.orthorectified_by # "none" /\ envi_out.glt_file) =>
              (envi_out.status = "Exception" /\ envi_out.files = {})
        /\ envi_out.orthorectified_by = "none" => envi_out.status # "Exception"

\* ------------------------------------------------------------ the scripts
\* for i in range(3): the granules extract_spectra reads
NumGranules == 3

\* the points of data/emit_unmix.gpkg
NumPoints == 2

\* the statements of one pass of extract_spectra's loop, in order
ExtractLoopStages ==
    << "fs_s3.open", "xr.open_dataset", "quality_mask", "emit_xarray",
       "chunk_where", "read_file", "extract_points", "concat" >>

\* the statements after the loop
ExtractTailStages == << "dropna", "to_csv" >>

\* the statements of unmix_image's main block, in order
UnmixStages ==
    << "fs_s3.open", "quality_mask", "emit_xarray", "submit_model", "apply_ufunc",
       "where_mask", "compute", "ortho_xr", "encode", "to_raster" >>

RECURSIVE Repeat(_, _)
Repeat(seq, n) == IF n = 0 THEN <<>> ELSE seq \o Repeat(seq, n - 1)

\* the statements a run executes, in order
Program(pipeline) ==
    IF pipeline = "extract_spectra"
    THEN Repeat(ExtractLoopStages, NumGranules) \o ExtractTailStages
    ELSE UnmixStages

\* as if every pass of the loop also wrote the file
writes_output_each_pass(stage) == stage \in {"to_csv", "to_raster", "concat"}

\* the statements that write an output file: final_df.to_csv, res.rio.to_raster
writes_output(stage) == stage \in {"to_csv", "to_raster"}

OutputFile(pipeline) ==
    IF pipeline = "extract_spectra" THEN "data/df_cleaned.csv" ELSE "data/unmixed/unmixed.tiff"

InitRun ==
    /\ \E pipeline \in {"extract_spectra", "unmix_image"} :
          run = [pipeline |-> pipeline, completed |-> <<>>, status |-> "running",
                 at |-> "", df |-> 0, final_df |-> <<>>, files |-> {}]
    /\ ds = NotRun /\ ortho_out = NotRun
    /\ mask_in = NotRun /\ mask_out = NotRun
    /\ load_in = NotRun /\ load_out = NotRun
    /\ pred_in = NotRun /\ pred_out = NotRun
    /\ export_out = NotRun
    /\ mix_in = NotRun /\ mix_out = NotRun
    /\ crop_in = NotRun /\ crop_out = NotRun
    /\ envi_out = NotRun

\* the next statement of the script runs to its end.  extract_points returns
\* a frame in which some of the points have no reflectance; concat appends it
\* to final_df; dropna keeps the rows that have one.
StageCompletes ==
    /\ run.status = "running"
    /\ LET stage == Program(run.pipeline)[Len(run.completed) + 1]
           last == Len(run.completed) + 1 = Len(Program(run.pipeline))
       IN \E missing \in 0 .. NumPoints :
             run' = [run EXCEPT
                 !.completed = Append(@, stage),
                 !.status = IF last THEN "done" ELSE "running",
                 !.df = IF stage = "extract_points" THEN missing ELSE @,
                 !.final_df = IF stage = "concat" THEN Append(@, run.df)
                              ELSE IF stage = "dropna" THEN [k \in DOMAIN @ |-> 0]
                              ELSE @,
                 !.files = IF writes_output(stage) THEN @ \cup {OutputFile(run.pipeline)}
                           ELSE @]
    /\ UNCHANGED <<ds, ortho_out, mask_in, mask_out, load_in, load_out, pred_in, pred_out, export_out, mix_in, mix_out, crop_in, crop_out, envi_out>>

\* the next statement raises: nothing catches it and the script ends.  A
\* statement that writes a file may have created it by then.
StageRaises ==
    /\ run.status = "running"
    /\ LET stage == Program(run.pipeline)[Len(run.completed) + 1]
       IN \E created \in BOOLEAN :
             run' = [run EXCEPT
                 !.status = "aborted",
                 !.at = stage,
                 !.files = IF writes_output(stage) /\ created
                           THEN @ \cup {OutputFile(run.pipeline)} ELSE @]
    /\ UNCHANGED <<ds, ortho_out, mask_in, mask_out, load_in, load_out, pred_in, pred_out, export_out, mix_in, mix_out, crop_in, crop_out, envi_out>>

NextRun == StageCompletes \/ StageRaises

SpecRun == InitRun /\ [][NextRun]_vars

\* ------------------------------------------------------- the scripts: claims
\* the statements that come before the one that writes the output
BeforeWrite(pipeline) == SubSeq(Program(pipeline), 1, Len(Program(pipeline)) - 1)

\* C19: an output file exists only once every statement before the write has
\* completed, for every granule; a run that ends in an error at any earlier
\* statement has written no output file.
C19_NoPartialOutput ==
    /\ run.files # {} =>
          /\ Len(run.completed) >= Len(BeforeWrite(run.pipeline))
          /\ SubSeq(run.completed, 1, Len(BeforeWrite(run.pipeline))) = BeforeWrite(run.pipeline)
          /\ run.pipeline = "extract_spectra" => Len(run.final_df) = NumGranules
    /\ (run.status = "aborted" /\ run.at \notin {"to_csv", "to_raster"}) => run.files = {}

\* C19 witness: extract_spectra ends in an error while loading its last
\* granule, after the two before it were read completely.
C19_Witness ==
    /\ run.pipeline = "extract_spectra"
    /\ run.status = "aborted"
    /\ run.at = "emit_xarray"
    /\ Len(run.final_df) = NumGranules - 1

====
